---- MODULE Spec2Model ----
(***************************************************************************)
(* The Vuex store of the httpsms web client (src/web/store/index.ts): its  *)
(* state, getters and mutations as operators over a State record, and its  *)
(* asynchronous actions as tasks that suspend at every await.              *)
(***************************************************************************)
EXTENDS Naturals, Sequences, FiniteSets, TLC

VARIABLES
    state,  \* the store's State record
    tasks,  \* the action invocations in flight, one per slot
    ops,    \* number of operations the consumers have started
    ev      \* what the last step did: handler, mutations committed, requests issued

vars == <<state, tasks, ops, ev>>

----------------------------------------------------------------------------
\* Bounds of the model.

\* action invocations that can be in flight at once
MaxTasks == 3
\* operations the consumers start in one run
MaxOps == 3

----------------------------------------------------------------------------
\* Values.

\* JavaScript null, for the string-valued fields (owner, threadId, active_phone_id)
NULL == "null"
\* JavaScript null, for the object-valued fields (authUser, user)
NullObject == [null |-> TRUE]
\* JavaScript undefined, the result of Array.prototype.find without a match
Undefined == [undefined |-> TRUE]
\* the Error a getter throws
Thrown == [error |-> "cannot find thread"]

Range(seq) == {seq[i] : i \in DOMAIN seq}

\* Array.prototype.find: the first element among those at the indexes I, the
\* ones that satisfy the callback, or undefined
Find(seq, I) ==
    IF I = {} THEN Undefined
    ELSE seq[CHOOSE i \in I : \A j \in I : i <= j]

PhoneA == [id |-> "p1", phone_number |-> "+1A"]
PhoneB == [id |-> "p2", phone_number |-> "+1B"]
PhoneNumbers == {"+1A", "+1B"}

ThreadA == [id |-> "t1", owner |-> "+1A", contact |-> "+1X"]
ThreadB == [id |-> "t2", owner |-> "+1B", contact |-> "+1X"]
ThreadIds == {"t1", "t2"}

Message(o, c) == [owner |-> o, contact |-> c]

AuthUsers == {[id |-> "u1"], [id |-> "u2"]}
Profiles == {[active_phone_id |-> "p1"], [active_phone_id |-> "p2"]}

NotificationTypes == {"error", "success", "info"}
NotificationRequests == [message : {"Message Sent!", "invalid from"}, type : NotificationTypes]

defaultNotificationTimeout == 3000
\* Math.floor(Math.random() * 100) is one of 0 .. 99
RandomRange == 100

\* sequences without repetition of length at most 2 over a set
Lists(S) ==
    {<<>>} \cup {<<x>> : x \in S} \cup {q \in {<<x, y>> : x \in S, y \in S} : q[1] # q[2]}

----------------------------------------------------------------------------
\* The initial state of the store.

InitialState ==
    [ threads |-> <<>>,
      threadId |-> NULL,
      loadingThreads |-> TRUE,
      loadingMessages |-> TRUE,
      threadMessages |-> <<>>,
      phones |-> <<>>,
      user |-> NullObject,
      owner |-> NULL,
      authUser |-> NullObject,
      notification |-> [ active |-> FALSE,
                         message |-> "",
                         type |-> "success",
                         timeout |-> defaultNotificationTimeout ] ]

----------------------------------------------------------------------------
\* Getters.

getters_getOwner(s) == s.owner

getters_getPhones(s) == s.phones

getters_getUser(s) == s.user

getters_getAuthUser(s) == s.authUser

\* faulty variant of getActivePhone: the first phone, whatever the owner
getActivePhone_first(s) ==
    IF Len(s.phones) = 0 THEN NullObject ELSE s.phones[1]

getters_getActivePhone(s) ==
    LET found == Find(s.phones, {i \in DOMAIN s.phones : s.phones[i].phone_number = s.owner})
    IN  IF found = Undefined THEN NullObject ELSE found

\* faulty variant of hasThread: the loading flag is not consulted
hasThread_ignoresLoading(s) == s.threadId # NULL

getters_hasThread(s) == s.threadId # NULL /\ ~s.loadingThreads

\* faulty variant of getThread: the first thread is returned whatever its id
getThread_first(s) ==
    IF Len(s.threads) = 0 THEN Thrown ELSE s.threads[1]

getters_getThread(s) ==
    LET thread == Find(s.threads, {i \in DOMAIN s.threads : s.threads[i].id = s.threadId})
    IN  IF thread = Undefined THEN Thrown ELSE thread

----------------------------------------------------------------------------
\* Mutations: each maps the State before the commit to the State after it.

mutations_setThreads(s, payload) ==
    [s EXCEPT !.threads = payload, !.loadingThreads = FALSE]

mutations_setThreadId(s, payload) ==
    [s EXCEPT !.threadId = payload]

mutations_setThreadMessages(s, payload) ==
    [s EXCEPT !.threadMessages = payload, !.loadingMessages = FALSE]

mutations_setAuthUser(s, payload) ==
    [s EXCEPT !.authUser = payload]

\* faulty variant of setNotification: the previous type is kept
setNotification_keepsType(s, notification, random) ==
    [s EXCEPT !.notification =
        [ s.notification EXCEPT
            !.active = TRUE,
            !.message = notification.message,
            !.timeout = random + defaultNotificationTimeout ] ]

mutations_setNotification(s, notification, random) ==
    [s EXCEPT !.notification =
        [ s.notification EXCEPT
            !.active = TRUE,
            !.message = notification.message,
            !.type = notification.type,
            !.timeout = random + defaultNotificationTimeout ] ]

mutations_disableNotification(s) ==
    [s EXCEPT !.notification.active = FALSE]

\* faulty variant of setPhones: the owner is reset even when a phone matches it
setPhones_alwaysFirst(s, payload) ==
    LET s1 == [s EXCEPT !.phones = payload]
    IN  IF Len(s1.phones) > 0
        THEN [s1 EXCEPT !.owner = s1.phones[1].phone_number]
        ELSE s1

\* faulty variant of setPhones: a reset of the owner sets the loading flags again
setPhones_rearmsLoading(s, payload) ==
    LET s1 == [s EXCEPT !.phones = payload]
        found == Find(payload, {i \in DOMAIN payload : payload[i].phone_number = s1.owner})
    IN  IF found = Undefined /\ Len(s1.phones) > 0
        THEN [s1 EXCEPT !.owner = s1.phones[1].phone_number,
                        !.loadingThreads = TRUE, !.loadingMessages = TRUE]
        ELSE s1

mutations_setPhones(s, payload) ==
    LET s1 == [s EXCEPT !.phones = payload]
        found == Find(payload, {i \in DOMAIN payload : payload[i].phone_number = s1.owner})
    IN  IF found = Undefined /\ Len(s1.phones) > 0
        THEN [s1 EXCEPT !.owner = s1.phones[1].phone_number]
        ELSE s1

mutations_setUser(s, payload) ==
    [s EXCEPT !.user = payload]

\* faulty variant of setOwner: loadingMessages is not set again
setOwner_keepsLoadingMessages(s, payload) ==
    [s EXCEPT !.owner = payload, !.loadingThreads = TRUE]

mutations_setOwner(s, payload) ==
    [s EXCEPT !.owner = payload, !.loadingThreads = TRUE, !.loadingMessages = TRUE]

----------------------------------------------------------------------------
\* The record of a step, and the task slots.

NoLocals == [none |-> TRUE]

\* op: the handler that ran; at: where in it ("call", "resume", "response",
\* "error", "join"); task: its slot (0: none kept); outcome: whether its promise is
\* still pending, resolved or rejected after the step; commits: the mutations
\* committed, in order, with their payloads; reqs: the gateway requests issued;
\* disp: the actions dispatched from the handler; locals: the handler's local
\* variables; prev: owner, threads and loading flags before the step
Event(op, at, task, outcome, commits, reqs, disp, locals) ==
    [ op |-> op, at |-> at, task |-> task, outcome |-> outcome, commits |-> commits,
      reqs |-> reqs, disp |-> disp, locals |-> locals,
      prev |-> [ owner |-> state.owner,
                 threads |-> state.threads,
                 loadingThreads |-> state.loadingThreads,
                 loadingMessages |-> state.loadingMessages ] ]

Commit(m, p) == [m |-> m, p |-> p]

Committed(m) == \E i \in DOMAIN ev.commits : ev.commits[i].m = m

Slots == 1 .. MaxTasks

Idle == [kind |-> "idle", pc |-> "idle", parent |-> 0, locals |-> NoLocals]

\* The store after a sign-in whose profile selected the first phone and after the
\* thread list was loaded: setAuthUser({id: "u1"}), then loadThreads.
SignedInState ==
    [ InitialState EXCEPT
        !.authUser = [id |-> "u1"],
        !.user = [active_phone_id |-> "p1"],
        !.phones = <<PhoneA, PhoneB>>,
        !.owner = "+1A",
        !.threads = <<ThreadA>>,
        !.loadingThreads = FALSE ]

Init ==
    /\ state \in {InitialState, SignedInState}
    /\ tasks = [t \in Slots |-> Idle]
    /\ ops = 0
    /\ ev = Event("init", "init", 0, "resolved", <<>>, {}, {}, NoLocals)

----------------------------------------------------------------------------
\* The mutations committed directly, with every payload of the bounded sets.

CommitStep(m, payload, s) ==
    /\ state' = s
    /\ ev' = Event("commit", "call", 0, "resolved", <<Commit(m, payload)>>, {}, {}, NoLocals)
    /\ UNCHANGED <<tasks, ops>>

CommitSetThreads ==
    \E payload \in Lists({ThreadA, ThreadB}) :
        CommitStep("setThreads", payload, mutations_setThreads(state, payload))

CommitSetThreadId ==
    \E payload \in ThreadIds \cup {NULL} :
        CommitStep("setThreadId", payload, mutations_setThreadId(state, payload))

CommitSetThreadMessages ==
    \E payload \in {<<>>, <<Message("+1A", "+1X")>>} :
        CommitStep("setThreadMessages", payload, mutations_setThreadMessages(state, payload))

CommitSetAuthUser ==
    \E payload \in AuthUsers \cup {NullObject} :
        CommitStep("setAuthUser", payload, mutations_setAuthUser(state, payload))

CommitSetPhones ==
    \E payload \in Lists({PhoneA, PhoneB}) :
        CommitStep("setPhones", payload, mutations_setPhones(state, payload))

CommitSetUser ==
    \E payload \in Profiles \cup {NullObject} :
        CommitStep("setUser", payload, mutations_setUser(state, payload))

CommitSetOwner ==
    \E payload \in PhoneNumbers \cup {""} :
        CommitStep("setOwner", payload, mutations_setOwner(state, payload))

NextMutations ==
    \/ CommitSetThreads
    \/ CommitSetThreadId
    \/ CommitSetThreadMessages
    \/ CommitSetAuthUser
    \/ CommitSetPhones
    \/ CommitSetUser
    \/ CommitSetOwner

SpecMutations == Init /\ [][NextMutations]_vars

----------------------------------------------------------------------------
\* The notification subsystem: state.notification is written by these two
\* actions only, and nothing else of the store reads it.

actions_addNotification ==
    \E request \in NotificationRequests, random \in 0 .. (RandomRange - 1) :
        /\ state' = mutations_setNotification(state, request, random)
        /\ ev' = Event("addNotification", "call", 0, "resolved",
                       <<Commit("setNotification", request)>>, {}, {}, NoLocals)
        /\ UNCHANGED <<tasks, ops>>

actions_disableNotification ==
    /\ state' = mutations_disableNotification(state)
    /\ ev' = Event("disableNotification", "call", 0, "resolved",
                   <<Commit("disableNotification", NULL)>>, {}, {}, NoLocals)
    /\ UNCHANGED <<tasks, ops>>

NextNotification ==
    \/ actions_addNotification
    \/ actions_disableNotification

SpecNotification == Init /\ [][NextNotification]_vars

----------------------------------------------------------------------------
\* The gateway (axios), a black box: what a request may be answered with.

Reply(ok, data) == [ok |-> ok, data |-> data]

GatewayError == Reply(FALSE, NULL)

Replies(payloads) == {Reply(TRUE, d) : d \in payloads} \cup {GatewayError}

\* GET /v1/message-threads?owner=o: threads of that owner
ThreadsOf(o) == {<<>>} \cup {<<x>> : x \in {th \in {ThreadA, ThreadB} : th.owner = o}}

\* GET /v1/phones
PhoneLists == {<<>>, <<PhoneB>>, <<PhoneA, PhoneB>>}

\* GET /v1/messages?contact=c&owner=o: messages of that pair
MessagesOf(c, o) == {<<>>, <<Message(o, c)>>}

SendMessageRequests == {[from |-> "+1A", to |-> "+1X", content |-> "hi"]}

----------------------------------------------------------------------------
\* Tasks: an action invocation suspended at an await.  pc names the await:
\* "commit" (await context.commit), "get" / "post" / "put" (await axios),
\* "all" (await Promise.all), "setOwner" (await context.dispatch('setOwner')).
\* A child dispatched by another action keeps its slot, "resolved" or
\* "rejected", until the parent's await reads it.

Task(kind, pc, parent, locals) ==
    [kind |-> kind, pc |-> pc, parent |-> parent, locals |-> locals]

\* a slot held for an action the parent has still to dispatch
Reserved(parent) == Task("reserved", "reserved", parent, NoLocals)

FreeSlots == {t \in Slots : tasks[t].kind = "idle"}

MinOf(S) == CHOOSE x \in S : \A y \in S : x <= y

Settled(t) == tasks[t].pc \in {"resolved", "rejected"}

\* the slots when the top-level task p has settled: its settled children go, its
\* running children run on with nobody awaiting them
Release(T, p) ==
    [u \in Slots |->
        IF u = p THEN Idle
        ELSE IF T[u].parent = p
             THEN IF T[u].pc \in {"reserved", "resolved", "rejected"}
                  THEN Idle
                  ELSE [T[u] EXCEPT !.parent = 0]
             ELSE T[u]]

\* the slots when task t settles with outcome
Finish(T, t, outcome) ==
    IF T[t].parent = 0
    THEN Release(T, t)
    ELSE [T EXCEPT ![t] = Task(T[t].kind, outcome, T[t].parent, NoLocals)]

\* a continuation that runs as a microtask, before any gateway response is handled
MicrotaskReady(t) ==
    \/ tasks[t].pc = "commit"
    \/ /\ tasks[t].pc = "all"
       /\ \/ \A i \in {1, 2} : tasks[tasks[t].locals.children[i]].pc = "resolved"
          \/ \E i \in {1, 2} : tasks[tasks[t].locals.children[i]].pc = "rejected"
    \/ /\ tasks[t].pc = "setOwner"
       /\ Settled(tasks[t].locals.children[1])

NoMicrotask == \A t \in Slots : ~MicrotaskReady(t)

----------------------------------------------------------------------------
\* The synchronous part of each action, from its dispatch to its first await:
\* the state it leaves, where it is suspended (or "resolved" when nothing is
\* left to do but return), its locals, the commits made and requests issued.

Begun(s, pc, locals, commits, reqs) ==
    [s |-> s, pc |-> pc, locals |-> locals, commits |-> commits, reqs |-> reqs]

begin_loadThreads(s) ==
    IF getters_getOwner(s) = NULL
    THEN Begun(mutations_setThreads(s, <<>>), "resolved", NoLocals,
               <<Commit("setThreads", <<>>)>>, {})
    ELSE Begun(s, "get", [owner |-> getters_getOwner(s)], <<>>, {"list-threads"})

\* faulty variant of loadPhones: cached phones are kept even when force is set
begin_loadPhones_ignoresForce(s, force) ==
    IF Len(getters_getPhones(s)) > 0
    THEN Begun(s, "resolved", [force |-> force], <<>>, {})
    ELSE Begun(s, "get", [force |-> force], <<>>, {"list-phones"})

begin_loadPhones(s, force) ==
    IF Len(getters_getPhones(s)) > 0 /\ ~force
    THEN Begun(s, "resolved", [force |-> force], <<>>, {})
    ELSE Begun(s, "get", [force |-> force], <<>>, {"list-phones"})

begin_loadUser(s) ==
    Begun(s, "get", NoLocals, <<>>, {"get-profile"})

begin_sendMessage(s, request) ==
    Begun(s, "post", [request |-> request], <<>>, {"send-message"})

begin_loadThreadMessages(s, threadId) ==
    Begun(mutations_setThreadId(s, threadId), "commit", [threadId |-> threadId],
          <<Commit("setThreadId", threadId)>>, {})

\* user?.id
IdOf(u) == IF u = NullObject THEN "undefined" ELSE u.id

\* faulty variant of setAuthUser: every non-null user starts the loads
begin_setAuthUser_ignoresUserChanged(s, user) ==
    LET userChanged == IdOf(user) # IdOf(getters_getAuthUser(s))
    IN  Begun(mutations_setAuthUser(s, user),
              IF user # NullObject THEN "commit" ELSE "resolved",
              [user |-> user, userChanged |-> userChanged],
              <<Commit("setAuthUser", user)>>, {})

begin_setAuthUser(s, user) ==
    LET userChanged == IdOf(user) # IdOf(getters_getAuthUser(s))
    IN  Begun(mutations_setAuthUser(s, user),
              IF userChanged /\ user # NullObject THEN "commit" ELSE "resolved",
              [user |-> user, userChanged |-> userChanged],
              <<Commit("setAuthUser", user)>>, {})

begin_setOwner(s, owner) ==
    Begun(mutations_setOwner(s, owner), "commit", [owner |-> owner],
          <<Commit("setOwner", owner)>>, {})

\* the slot record of a child dispatched by the task in slot p
Child(kind, b, p) ==
    Task(kind, b.pc, p, IF b.pc = "resolved" THEN NoLocals ELSE b.locals)

----------------------------------------------------------------------------
\* An operation started by a consumer.

\* an action without children: it takes a slot unless it returns at once
Call(kind, b) ==
    /\ ops < MaxOps
    /\ ops' = ops + 1
    /\ state' = b.s
    /\ IF b.pc = "resolved"
       THEN /\ tasks' = tasks
            /\ ev' = Event(kind, "call", 0, "resolved", b.commits, b.reqs, {}, b.locals)
       ELSE /\ FreeSlots # {}
            /\ LET t == MinOf(FreeSlots)
               IN  /\ tasks' = [tasks EXCEPT ![t] = Task(kind, b.pc, 0, b.locals)]
                   /\ ev' = Event(kind, "call", t, "pending", b.commits, b.reqs, {}, b.locals)

\* an action that dispatches two others later: it takes a slot and holds two
CallWithChildren(kind, b) ==
    /\ ops < MaxOps
    /\ Cardinality(FreeSlots) >= 3
    /\ LET t == MinOf(FreeSlots)
           c1 == MinOf(FreeSlots \ {t})
           c2 == MinOf(FreeSlots \ {t, c1})
           locals == b.locals @@ [children |-> <<c1, c2>>]
       IN  /\ tasks' = [tasks EXCEPT ![t] = Task(kind, b.pc, 0, locals),
                                     ![c1] = Reserved(t),
                                     ![c2] = Reserved(t)]
           /\ ev' = Event(kind, "call", t, "pending", b.commits, b.reqs, {}, locals)
    /\ ops' = ops + 1
    /\ state' = b.s

actions_loadThreads == Call("loadThreads", begin_loadThreads(state))

actions_loadPhones == \E force \in BOOLEAN : Call("loadPhones", begin_loadPhones(state, force))

actions_loadUser == Call("loadUser", begin_loadUser(state))

actions_sendMessage ==
    \E request \in SendMessageRequests :
        CallWithChildren("sendMessage", begin_sendMessage(state, request))

actions_setThreadId ==
    \E threadId \in ThreadIds \cup {NULL} :
        Call("setThreadId",
             Begun(mutations_setThreadId(state, threadId), "resolved", NoLocals,
                   <<Commit("setThreadId", threadId)>>, {}))

actions_loadThreadMessages ==
    \E threadId \in ThreadIds \cup {NULL} :
        Call("loadThreadMessages", begin_loadThreadMessages(state, threadId))

actions_setAuthUser ==
    \E user \in AuthUsers \cup {NullObject} :
        LET b == begin_setAuthUser(state, user)
        IN  IF b.pc = "resolved"
            THEN Call("setAuthUser", b)
            ELSE CallWithChildren("setAuthUser", b)

actions_setOwner ==
    \E owner \in PhoneNumbers \cup {""} : Call("setOwner", begin_setOwner(state, owner))

----------------------------------------------------------------------------
\* The continuations after an await.

\* a task settles: resolved with the commit of the response, or rejected
Settle(t, outcome, at, s, commits) ==
    /\ state' = s
    /\ tasks' = Finish(tasks, t, outcome)
    /\ ev' = Event(tasks[t].kind, at, t, outcome, commits, {}, {}, tasks[t].locals)
    /\ UNCHANGED ops

\* a task goes on to its next await
Continue(t, at, s, pc, locals, commits, reqs) ==
    /\ state' = s
    /\ tasks' = [tasks EXCEPT ![t].pc = pc, ![t].locals = locals]
    /\ ev' = Event(tasks[t].kind, at, t, "pending", commits, reqs, {}, locals)
    /\ UNCHANGED ops

\* faulty variant of loadThreads: a failed request empties the thread list
loadThreads_response_emptiesOnError(t) ==
    /\ tasks[t].kind = "loadThreads" /\ tasks[t].pc = "get"
    /\ NoMicrotask
    /\ \E r \in Replies(ThreadsOf(tasks[t].locals.owner)) :
        IF r.ok
        THEN Settle(t, "resolved", "response", mutations_setThreads(state, r.data),
                    <<Commit("setThreads", r.data)>>)
        ELSE Settle(t, "rejected", "error", mutations_setThreads(state, <<>>),
                    <<Commit("setThreads", <<>>)>>)

\* faulty variant of loadThreads: the response of a request issued for another
\* owner than the current one is discarded
loadThreads_response_dropsStale(t) ==
    /\ tasks[t].kind = "loadThreads" /\ tasks[t].pc = "get"
    /\ NoMicrotask
    /\ \E r \in Replies(ThreadsOf(tasks[t].locals.owner)) :
        IF r.ok
        THEN IF tasks[t].locals.owner = state.owner
             THEN Settle(t, "resolved", "response", mutations_setThreads(state, r.data),
                         <<Commit("setThreads", r.data)>>)
             ELSE Settle(t, "resolved", "response", state, <<>>)
        ELSE Settle(t, "rejected", "error", state, <<>>)

\* loadThreads: the response of GET /v1/message-threads
loadThreads_response(t) ==
    /\ tasks[t].kind = "loadThreads" /\ tasks[t].pc = "get"
    /\ NoMicrotask
    /\ \E r \in Replies(ThreadsOf(tasks[t].locals.owner)) :
        IF r.ok
        THEN Settle(t, "resolved", "response", mutations_setThreads(state, r.data),
                    <<Commit("setThreads", r.data)>>)
        ELSE Settle(t, "rejected", "error", state, <<>>)

\* loadPhones: the response of GET /v1/phones
loadPhones_response(t) ==
    /\ tasks[t].kind = "loadPhones" /\ tasks[t].pc = "get"
    /\ NoMicrotask
    /\ \E r \in Replies(PhoneLists) :
        IF r.ok
        THEN Settle(t, "resolved", "response", mutations_setPhones(state, r.data),
                    <<Commit("setPhones", r.data)>>)
        ELSE Settle(t, "rejected", "error", state, <<>>)

\* loadUser: the response of GET /v1/users/me
loadUser_response(t) ==
    /\ tasks[t].kind = "loadUser" /\ tasks[t].pc = "get"
    /\ NoMicrotask
    /\ \E r \in Replies(Profiles) :
        IF r.ok
        THEN Settle(t, "resolved", "response", mutations_setUser(state, r.data),
                    <<Commit("setUser", r.data)>>)
        ELSE Settle(t, "rejected", "error", state, <<>>)

\* loadThreadMessages after await context.commit('setThreadId'): the request
\* is built from getThread, which throws when the thread is not in the collection
loadThreadMessages_resume(t) ==
    /\ tasks[t].kind = "loadThreadMessages" /\ tasks[t].pc = "commit"
    /\ LET thread == getters_getThread(state)
       IN  IF thread = Thrown
           THEN Settle(t, "rejected", "resume", state, <<>>)
           ELSE Continue(t, "resume", state, "get",
                         [ threadId |-> tasks[t].locals.threadId,
                           contact |-> thread.contact, owner |-> thread.owner ],
                         <<>>, {"list-messages"})

\* loadThreadMessages: the response of GET /v1/messages
loadThreadMessages_response(t) ==
    /\ tasks[t].kind = "loadThreadMessages" /\ tasks[t].pc = "get"
    /\ NoMicrotask
    /\ \E r \in Replies(MessagesOf(tasks[t].locals.contact, tasks[t].locals.owner)) :
        IF r.ok
        THEN Settle(t, "resolved", "response", mutations_setThreadMessages(state, r.data),
                    <<Commit("setThreadMessages", r.data)>>)
        ELSE Settle(t, "rejected", "error", state, <<>>)

\* setOwner after await context.commit('setOwner'): no request without an active phone
setOwner_resume(t) ==
    /\ tasks[t].kind = "setOwner" /\ tasks[t].pc = "commit"
    /\ LET phone == getters_getActivePhone(state)
       IN  IF phone = NullObject
           THEN Settle(t, "resolved", "resume", state, <<>>)
           ELSE Continue(t, "resume", state, "put",
                         [owner |-> tasks[t].locals.owner, active_phone_id |-> phone.id],
                         <<>>, {"update-profile"})

\* setOwner: the response of PUT /v1/users/me
setOwner_response(t) ==
    /\ tasks[t].kind = "setOwner" /\ tasks[t].pc = "put"
    /\ NoMicrotask
    /\ \E r \in Replies(Profiles) :
        IF r.ok
        THEN Settle(t, "resolved", "response", mutations_setUser(state, r.data),
                    <<Commit("setUser", r.data)>>)
        ELSE Settle(t, "rejected", "error", state, <<>>)

\* faulty variant of sendMessage: loadThreads is dispatched first, before
\* getThread.id is read for the other dispatch
sendMessage_response_reloadsFirst(t) ==
    /\ tasks[t].kind = "sendMessage" /\ tasks[t].pc = "post"
    /\ NoMicrotask
    /\ \E r \in Replies({NULL}) :
        IF ~r.ok
        THEN Settle(t, "rejected", "error", state, <<>>)
        ELSE LET thread == getters_getThread(state)
                 b2 == begin_loadThreads(state)
                 c == tasks[t].locals.children
             IN  IF thread = Thrown
                 THEN /\ state' = b2.s
                      /\ tasks' = Finish([tasks EXCEPT ![c[2]] = Child("loadThreads", b2, t)],
                                         t, "rejected")
                      /\ ev' = Event("sendMessage", "response", t, "rejected",
                                     b2.commits, b2.reqs, {"loadThreads"}, tasks[t].locals)
                      /\ UNCHANGED ops
                 ELSE LET b1 == begin_loadThreadMessages(b2.s, thread.id)
                      IN  /\ state' = b1.s
                          /\ tasks' = [tasks EXCEPT
                                 ![t].pc = "all",
                                 ![c[1]] = Child("loadThreadMessages", b1, t),
                                 ![c[2]] = Child("loadThreads", b2, t)]
                          /\ ev' = Event("sendMessage", "response", t, "pending",
                                         b2.commits \o b1.commits, b1.reqs \cup b2.reqs,
                                         {"loadThreadMessages", "loadThreads"},
                                         tasks[t].locals)
                          /\ UNCHANGED ops

\* sendMessage: the response of POST /v1/messages/send, then both reloads are
\* dispatched (getThread.id is read first and may throw) and awaited together
sendMessage_response(t) ==
    /\ tasks[t].kind = "sendMessage" /\ tasks[t].pc = "post"
    /\ NoMicrotask
    /\ \E r \in Replies({NULL}) :
        IF ~r.ok
        THEN Settle(t, "rejected", "error", state, <<>>)
        ELSE LET thread == getters_getThread(state)
             IN  IF thread = Thrown
                 THEN Settle(t, "rejected", "response", state, <<>>)
                 ELSE LET b1 == begin_loadThreadMessages(state, thread.id)
                          b2 == begin_loadThreads(b1.s)
                          c == tasks[t].locals.children
                      IN  /\ state' = b2.s
                          /\ tasks' = [tasks EXCEPT
                                 ![t].pc = "all",
                                 ![c[1]] = Child("loadThreadMessages", b1, t),
                                 ![c[2]] = Child("loadThreads", b2, t)]
                          /\ ev' = Event("sendMessage", "response", t, "pending",
                                         b1.commits \o b2.commits, b1.reqs \cup b2.reqs,
                                         {"loadThreadMessages", "loadThreads"},
                                         tasks[t].locals)
                          /\ UNCHANGED ops

\* faulty variant of the await: Promise.any, resolved as soon as one is
PromiseAny(t) ==
    LET c == tasks[t].locals.children
    IN  IF \E i \in {1, 2} : tasks[c[i]].pc = "resolved" THEN "resolved"
        ELSE IF \A i \in {1, 2} : tasks[c[i]].pc = "rejected" THEN "rejected"
        ELSE "pending"

\* await Promise.all([...]): resolved when both are, rejected when one is
PromiseAll(t) ==
    LET c == tasks[t].locals.children
    IN  IF \E i \in {1, 2} : tasks[c[i]].pc = "rejected" THEN "rejected"
        ELSE IF \A i \in {1, 2} : tasks[c[i]].pc = "resolved" THEN "resolved"
        ELSE "pending"

\* sendMessage after await Promise.all
sendMessage_join(t) ==
    /\ tasks[t].kind = "sendMessage" /\ tasks[t].pc = "all"
    /\ PromiseAll(t) # "pending"
    /\ Settle(t, PromiseAll(t), "join", state, <<>>)

\* setAuthUser after await context.commit('setAuthUser'): loadUser and
\* loadPhones (without force) are dispatched and awaited together
setAuthUser_resume(t) ==
    /\ tasks[t].kind = "setAuthUser" /\ tasks[t].pc = "commit"
    /\ LET b1 == begin_loadUser(state)
           b2 == begin_loadPhones(b1.s, FALSE)
           c == tasks[t].locals.children
       IN  /\ state' = b2.s
           /\ tasks' = [tasks EXCEPT
                  ![t].pc = "all",
                  ![c[1]] = Child("loadUser", b1, t),
                  ![c[2]] = Child("loadPhones", b2, t)]
           /\ ev' = Event("setAuthUser", "resume", t, "pending",
                          b1.commits \o b2.commits, b1.reqs \cup b2.reqs,
                          {"loadUser", "loadPhones"}, tasks[t].locals)
           /\ UNCHANGED ops

\* faulty variant of the lookup: the first phone, whatever its id
firstPhone(s) ==
    IF Len(getters_getPhones(s)) = 0 THEN Undefined ELSE getters_getPhones(s)[1]

\* getPhones.find((x) => x.id === getUser.active_phone_id)
activePhoneOfProfile(s) ==
    LET phones == getters_getPhones(s)
    IN  Find(phones, {i \in DOMAIN phones : phones[i].id = getters_getUser(s).active_phone_id})

\* setAuthUser after await Promise.all: the phone of the profile's
\* active_phone_id is looked up and, when found, setOwner is dispatched
setAuthUser_join(t) ==
    /\ tasks[t].kind = "setAuthUser" /\ tasks[t].pc = "all"
    /\ PromiseAll(t) # "pending"
    /\ IF PromiseAll(t) = "rejected" \/ getters_getUser(state) = NullObject
       THEN Settle(t, "rejected", "join", state, <<>>)
       ELSE LET phone == activePhoneOfProfile(state)
                c == tasks[t].locals.children
            IN  IF phone = Undefined
                THEN Settle(t, "resolved", "join", state, <<>>)
                ELSE LET b == begin_setOwner(state, phone.phone_number)
                         locals == tasks[t].locals @@ [phone |-> phone]
                     IN  /\ state' = b.s
                         /\ tasks' = [tasks EXCEPT
                                ![t].pc = "setOwner",
                                ![t].locals = locals,
                                ![c[1]] = Child("setOwner", b, t),
                                ![c[2]] = Reserved(t)]
                         /\ ev' = Event("setAuthUser", "join", t, "pending",
                                        b.commits, b.reqs, {"setOwner"}, locals)
                         /\ UNCHANGED ops

\* setAuthUser after await context.dispatch('setOwner', ...)
setAuthUser_return(t) ==
    /\ tasks[t].kind = "setAuthUser" /\ tasks[t].pc = "setOwner"
    /\ Settled(tasks[t].locals.children[1])
    /\ Settle(t, tasks[tasks[t].locals.children[1]].pc, "return", state, <<>>)

----------------------------------------------------------------------------
\* The store with its actions, as the consumers and the gateway drive it.

Next ==
    \/ actions_loadThreads
    \/ actions_loadPhones
    \/ actions_loadUser
    \/ actions_sendMessage
    \/ actions_setThreadId
    \/ actions_loadThreadMessages
    \/ actions_setAuthUser
    \/ actions_setOwner
    \/ \E t \in Slots : loadThreads_response(t)
    \/ \E t \in Slots : loadPhones_response(t)
    \/ \E t \in Slots : loadUser_response(t)
    \/ \E t \in Slots : loadThreadMessages_resume(t)
    \/ \E t \in Slots : loadThreadMessages_response(t)
    \/ \E t \in Slots : setOwner_resume(t)
    \/ \E t \in Slots : setOwner_response(t)
    \/ \E t \in Slots : sendMessage_response(t)
    \/ \E t \in Slots : sendMessage_join(t)
    \/ \E t \in Slots : setAuthUser_resume(t)
    \/ \E t \in Slots : setAuthUser_join(t)
    \/ \E t \in Slots : setAuthUser_return(t)

Spec == Init /\ [][Next]_vars

\* One operation at a time, and a gateway that answers every request: a consumer
\* starts an operation only when no other is in flight.
Quiescent == \A t \in Slots : tasks[t].kind = "idle"

Solo(A) ==
    /\ A
    /\ ev'.at # "error"
    /\ ev'.at = "call" => Quiescent

NextSolo ==
    \/ Solo(actions_loadThreads)
    \/ Solo(actions_loadPhones)
    \/ Solo(actions_loadUser)
    \/ Solo(actions_sendMessage)
    \/ Solo(actions_setThreadId)
    \/ Solo(actions_loadThreadMessages)
    \/ Solo(actions_setAuthUser)
    \/ Solo(actions_setOwner)
    \/ \E t \in Slots : Solo(loadThreads_response(t))
    \/ \E t \in Slots : Solo(loadPhones_response(t))
    \/ \E t \in Slots : Solo(loadUser_response(t))
    \/ \E t \in Slots : Solo(loadThreadMessages_resume(t))
    \/ \E t \in Slots : Solo(loadThreadMessages_response(t))
    \/ \E t \in Slots : Solo(setOwner_resume(t))
    \/ \E t \in Slots : Solo(setOwner_response(t))
    \/ \E t \in Slots : Solo(sendMessage_response(t))
    \/ \E t \in Slots : Solo(sendMessage_join(t))
    \/ \E t \in Slots : Solo(setAuthUser_resume(t))
    \/ \E t \in Slots : Solo(setAuthUser_join(t))
    \/ \E t \in Slots : Solo(setAuthUser_return(t))

SpecSolo == Init /\ [][NextSolo]_vars

----------------------------------------------------------------------------
\* Claims about the actions (Spec, SpecSolo).

CommittedIn(e, m) == \E i \in DOMAIN e.commits : e.commits[i].m = m

\* C2: right after a setOwner commit, from the setOwner action or from the
\* setAuthUser cascade, both loading flags are true and owner is the payload.
C2_SetOwnerRearms ==
    \A i \in DOMAIN ev.commits :
        ev.commits[i].m = "setOwner" =>
            /\ i = Len(ev.commits)
            /\ state.owner = ev.commits[i].p
            /\ state.loadingThreads
            /\ state.loadingMessages

\* the cascade of setAuthUser committed setOwner while loadingThreads was false
C2_Witness ==
    /\ ev.op = "setAuthUser"
    /\ Committed("setOwner")
    /\ ~ev.prev.loadingThreads
    /\ state.loadingThreads
    /\ state.owner # ev.prev.owner

\* C3: loadThreads run with an empty owner (null, or "" after setOwner(""))
\* issues no list-threads request and leaves threads empty, loadingThreads false.
C3_EmptyOwnerLoadsNothing ==
    (/\ (ev.op = "loadThreads" /\ ev.at = "call") \/ "loadThreads" \in ev.disp
     /\ ev.prev.owner \in {NULL, ""})
    => /\ "list-threads" \notin ev.reqs
       /\ state.threads = <<>>
       /\ ~state.loadingThreads

\* C5: sendMessage resolves only from its await of Promise.all, entered by the
\* successful response of the send-message request in the step that dispatched
\* both reloads, and only with both reloads resolved; with a reload rejected it
\* is rejected.
C5_SendMessageJoins ==
    [][ \A t \in Slots :
          /\ (tasks'[t].kind = "sendMessage" /\ tasks'[t].pc = "all" /\ tasks[t].pc # "all") =>
                /\ tasks[t].kind = "sendMessage" /\ tasks[t].pc = "post"
                /\ ev'.op = "sendMessage" /\ ev'.at = "response" /\ ev'.task = t
                /\ ev'.disp = {"loadThreadMessages", "loadThreads"}
                /\ tasks'[tasks'[t].locals.children[1]].kind = "loadThreadMessages"
                /\ tasks'[tasks'[t].locals.children[2]].kind = "loadThreads"
          /\ (ev'.op = "sendMessage" /\ ev'.task = t /\ ev'.outcome = "resolved") =>
                /\ tasks[t].kind = "sendMessage" /\ tasks[t].pc = "all"
                /\ \A i \in {1, 2} :
                      /\ tasks[tasks[t].locals.children[i]].parent = t
                      /\ tasks[tasks[t].locals.children[i]].pc = "resolved"
          /\ (/\ tasks[t].kind = "sendMessage" /\ tasks[t].pc = "all"
              /\ \E i \in {1, 2} : tasks[tasks[t].locals.children[i]].pc = "rejected"
              /\ ev'.op = "sendMessage" /\ ev'.task = t) =>
                ev'.outcome = "rejected"
      ]_vars

\* sendMessage resolved, with the messages and the threads reloaded
C5_Witness ==
    /\ ev.op = "sendMessage"
    /\ ev.at = "join"
    /\ ev.outcome = "resolved"
    /\ ~state.loadingMessages
    /\ ~state.loadingThreads

\* C6: setAuthUser(user) with user null or user.id the id of the current
\* authUser commits authUser = user and nothing else: no request, no dispatch,
\* no task left behind, every other field of the state unchanged.
C6_NoOpIdentity ==
    [][ (/\ ev'.op = "setAuthUser" /\ ev'.at = "call"
         /\ \/ ev'.commits[1].p = NullObject
            \/ IdOf(ev'.commits[1].p) = IdOf(state.authUser))
        => /\ state' = [state EXCEPT !.authUser = ev'.commits[1].p]
           /\ tasks' = tasks
           /\ ev'.outcome = "resolved"
           /\ ev'.reqs = {}
           /\ ev'.disp = {}
      ]_vars

\* setAuthUser was called again with the id of a cascade still in flight
C6_Witness ==
    /\ ev.op = "setAuthUser" /\ ev.at = "call" /\ ev.outcome = "resolved"
    /\ ev.commits[1].p # NullObject
    /\ \E t \in Slots :
          /\ tasks[t].kind = "setAuthUser"
          /\ tasks[t].pc = "all"
          /\ tasks[t].locals.user = ev.commits[1].p

\* C7: the cascade of setAuthUser issues a get-profile and a list-phones request.
C7_CascadeLoadsBoth ==
    (ev.op = "setAuthUser" /\ ev.at = "resume") =>
        /\ ev.disp = {"loadUser", "loadPhones"}
        /\ ev.reqs = {"get-profile", "list-phones"}

\* C8: with one operation at a time and every request answered, the cascade of
\* setAuthUser, once both loads are done, dispatches setOwner with the number of
\* the phone whose id is the profile's active_phone_id, and completes with that
\* owner and both loading flags true; without such a phone it completes at once,
\* with no setOwner and no request.
C8_CascadeSelectsOwner ==
    /\ (ev.op = "setAuthUser" /\ ev.at = "join") =>
          LET match == {i \in DOMAIN state.phones :
                            state.phones[i].id = state.user.active_phone_id}
          IN  IF match # {}
              THEN /\ ev.outcome = "pending"
                   /\ ev.disp = {"setOwner"}
                   /\ \E i \in match : ev.locals.phone = state.phones[i]
                   /\ state.owner = ev.locals.phone.phone_number
                   /\ state.loadingThreads /\ state.loadingMessages
              ELSE /\ ev.outcome = "resolved"
                   /\ ev.disp = {} /\ ev.reqs = {} /\ ev.commits = <<>>
                   /\ Quiescent
    /\ (ev.op = "setAuthUser" /\ ev.at = "return") =>
          /\ ev.outcome = "resolved"
          /\ state.owner = ev.locals.phone.phone_number
          /\ state.loadingThreads /\ state.loadingMessages

\* a cascade completed after selecting the second phone, from a state whose
\* thread list was loaded
C8_Witness ==
    /\ ev.op = "setAuthUser" /\ ev.at = "return" /\ ev.outcome = "resolved"
    /\ ev.locals.phone = PhoneB
    /\ state.phones = <<PhoneA, PhoneB>>
    /\ state.owner = "+1B"
    /\ state.threads = <<ThreadA>>

\* C9: hasThread is true exactly when threadId is not null and loadingThreads is
\* false; it is false right after a setOwner commit, and from a state where the
\* thread list is loading it becomes true only by a setThreads commit.
C9_HasThread ==
    /\ [](getters_hasThread(state) <=> (state.threadId # NULL /\ ~state.loadingThreads))
    /\ [](Committed("setOwner") => ~getters_hasThread(state))
    /\ [][ (state.loadingThreads /\ getters_hasThread(state'))
           => CommittedIn(ev', "setThreads") ]_vars

\* a setOwner commit turned hasThread from true to false
C9_Witness ==
    /\ Committed("setOwner")
    /\ state.threadId # NULL
    /\ ~ev.prev.loadingThreads
    /\ ~getters_hasThread(state)

----------------------------------------------------------------------------
\* Claims about the mutations and the getters (SpecMutations).

HasPhoneNumber(P, o) == \E i \in DOMAIN P : P[i].phone_number = o

HasThreadIdIn(T, id) == \E i \in DOMAIN T : T[i].id = id

\* C1: after setPhones(P) from prior owner o, phones = P; owner stays o when a
\* phone of P has phone_number o, becomes the first phone's number when none has
\* and P is non-empty, and stays o (null included) when P is empty.
C1_SetPhonesOwner ==
    (ev.op = "commit" /\ ev.commits[1].m = "setPhones") =>
        LET P == ev.commits[1].p
            o == ev.prev.owner
        IN  /\ state.phones = P
            /\ state.owner = IF HasPhoneNumber(P, o) THEN o
                             ELSE IF Len(P) > 0 THEN P[1].phone_number
                             ELSE o

\* setPhones reset the owner: no phone of a non-empty P had the prior owner's number
C1_Witness ==
    /\ ev.op = "commit"
    /\ ev.commits[1].m = "setPhones"
    /\ ev.commits[1].p = <<PhoneB, PhoneA>>
    /\ ev.prev.owner = ""
    /\ state.owner = "+1B"

\* C4: getThread throws when no thread of the collection has id = threadId (null
\* included), otherwise returns a thread of the collection with that id; right
\* after setThreadId(id) with id in the collection it returns a record with id.
C4_GetThread ==
    LET r == getters_getThread(state)
    IN  /\ IF HasThreadIdIn(state.threads, state.threadId)
           THEN r \in Range(state.threads) /\ r.id = state.threadId
           ELSE r = Thrown
        /\ (/\ ev.op = "commit"
            /\ ev.commits[1].m = "setThreadId"
            /\ HasThreadIdIn(state.threads, ev.commits[1].p))
           => r.id = ev.commits[1].p

\* setThreadId("t2") was committed with t2 second in the collection, and getThread finds it
C4_Witness ==
    /\ ev.op = "commit"
    /\ ev.commits[1].m = "setThreadId"
    /\ ev.commits[1].p = "t2"
    /\ state.threads = <<ThreadA, ThreadB>>
    /\ getters_getThread(state) = ThreadB

----------------------------------------------------------------------------
\* Claims about the notification (SpecNotification).

\* C10: right after every addNotification the notification's message and type
\* are the request's and active is true, whatever they were before; a
\* disableNotification in between changes neither message nor type, so they
\* stay those of the most recent addNotification.
C10_NotificationReplaced ==
    [][ /\ ev'.op = "addNotification" =>
            /\ state'.notification.message = ev'.commits[1].p.message
            /\ state'.notification.type = ev'.commits[1].p.type
            /\ state'.notification.active
        /\ ev'.op = "disableNotification" =>
            /\ state'.notification.message = state.notification.message
            /\ state'.notification.type = state.notification.type
      ]_vars

\* an addNotification replaced an earlier notification
C10_Witness ==
    /\ ev.op = "addNotification"
    /\ ev.commits[1].p = [message |-> "invalid from", type |-> "error"]
    /\ state.notification.message = "invalid from"
    /\ state.notification.type = "error"
    /\ state.notification.active
    /\ state.notification.timeout = defaultNotificationTimeout + RandomRange - 1

----------------------------------------------------------------------------
\* Claims about the loads and the owner (Spec).

\* C11: loadPhones(force), called by a consumer or dispatched by setAuthUser
\* (without force), issues a list-phones request exactly when phones is empty or
\* force is true at that moment; skipped, it returns at once and the state is
\* unchanged; its successful response replaces phones by the payload and
\* recomputes owner as setPhones does, nothing else; a failed one changes nothing.
C11_LoadPhones ==
    [][ /\ (ev'.op = "loadPhones" /\ ev'.at = "call") =>
            /\ ("list-phones" \in ev'.reqs) <=> (Len(state.phones) = 0 \/ ev'.locals.force)
            /\ state' = state
            /\ ("list-phones" \notin ev'.reqs) =>
                  /\ ev'.outcome = "resolved"
                  /\ ev'.commits = <<>>
                  /\ tasks' = tasks
        /\ ("loadPhones" \in ev'.disp) =>
            /\ ("list-phones" \in ev'.reqs) <=> (Len(state.phones) = 0)
            /\ state' = state
        /\ (ev'.op = "loadPhones" /\ ev'.at = "response") =>
            LET P == ev'.commits[1].p
                o == state.owner
            IN  /\ ev'.commits[1].m = "setPhones"
                /\ state' = [state EXCEPT
                       !.phones = P,
                       !.owner = IF HasPhoneNumber(P, o) THEN o
                                 ELSE IF Len(P) > 0 THEN P[1].phone_number
                                 ELSE o]
        /\ (ev'.op = "loadPhones" /\ ev'.at = "error") => state' = state
      ]_vars

\* a forced reload replaced the cached phones, and the owner with them
C11_Witness ==
    /\ ev.op = "loadPhones" /\ ev.at = "response" /\ ev.outcome = "resolved"
    /\ ev.locals.force
    /\ ev.prev.owner = "+1A"
    /\ state.phones = <<PhoneB>>
    /\ state.owner = "+1B"

----------------------------------------------------------------------------
\* Claims about the loading flags (SpecMutations, Spec).

\* C13: a setPhones commit, whatever its payload and the state before it, leaves
\* loadingThreads, loadingMessages, threads, threadId and threadMessages as
\* they were, also when it resets the owner.
C13_SetPhonesFrame ==
    [][ (ev'.op = "commit" /\ ev'.commits[1].m = "setPhones") =>
            /\ state'.loadingThreads = state.loadingThreads
            /\ state'.loadingMessages = state.loadingMessages
            /\ state'.threads = state.threads
            /\ state'.threadId = state.threadId
            /\ state'.threadMessages = state.threadMessages
      ]_vars

\* setPhones reset the owner while both loading flags were false, and they still are
C13_Witness ==
    /\ ev.op = "commit"
    /\ ev.commits[1].m = "setPhones"
    /\ ev.prev.owner = "+1A"
    /\ state.owner = "+1B"
    /\ ~ev.prev.loadingThreads /\ ~state.loadingThreads
    /\ ~ev.prev.loadingMessages /\ ~state.loadingMessages

\* C14: loadingThreads goes from true to false only in a step of loadThreads
\* that commits setThreads and does not fail, loadingMessages only in the
\* successful response of loadThreadMessages, which commits setThreadMessages;
\* a failed request of either rejects the operation (towards its caller, or
\* towards the action that dispatched and awaits it), commits nothing and
\* leaves the whole state, the flags with it, as it was.
C14_FlagsClearedBySuccess ==
    [][ /\ (state.loadingThreads /\ ~state'.loadingThreads) =>
            /\ CommittedIn(ev', "setThreads")
            /\ ev'.op = "loadThreads" \/ "loadThreads" \in ev'.disp
            /\ ev'.at # "error"
            /\ ev'.outcome # "rejected"
        /\ (state.loadingMessages /\ ~state'.loadingMessages) =>
            /\ CommittedIn(ev', "setThreadMessages")
            /\ ev'.op = "loadThreadMessages"
            /\ ev'.at = "response"
            /\ ev'.outcome = "resolved"
        /\ (ev'.op \in {"loadThreads", "loadThreadMessages"} /\ ev'.at = "error") =>
            /\ ev'.outcome = "rejected"
            /\ ev'.commits = <<>>
            /\ state' = state
            /\ tasks[ev'.task].pc = "get"
            /\ IF tasks[ev'.task].parent = 0
               THEN tasks'[ev'.task].kind = "idle"
               ELSE tasks'[ev'.task].pc = "rejected"
      ]_vars

\* a reload of the threads after an owner change failed: the operation is
\* rejected, the old threads are still there and loadingThreads is still true
C14_Witness ==
    /\ ev.op = "loadThreads" /\ ev.at = "error" /\ ev.outcome = "rejected"
    /\ ev.locals.owner = "+1B"
    /\ state.owner = "+1B"
    /\ state.threads = <<ThreadA>>
    /\ state.loadingThreads

----------------------------------------------------------------------------
\* Claims about the open thread (Spec, SpecSelect).

\* C15: whenever loadingMessages is false and threadId is not null, threadId
\* identifies a thread of the collection and every message of threadMessages
\* is one of that thread's (contact, owner) pair, as a list-messages response
\* for that pair would be.
C15_MessagesOfOpenThread ==
    (~state.loadingMessages /\ state.threadId # NULL) =>
        LET thread == getters_getThread(state)
        IN  /\ thread # Thrown
            /\ \A i \in DOMAIN state.threadMessages :
                  /\ state.threadMessages[i].owner = thread.owner
                  /\ state.threadMessages[i].contact = thread.contact

\* C16: every step that changes owner leaves loadingThreads and
\* loadingMessages both true.
C16_OwnerChangeRearms ==
    (state.owner # ev.prev.owner) => (state.loadingThreads /\ state.loadingMessages)

\* The store driven by consumers that select threads of the collection only:
\* setThreadId and loadThreadMessages are called with null or with the id of a
\* thread that is in state.threads at the time of the call.
Selecting(A) ==
    /\ A
    /\ \/ ev'.commits[1].p = NULL
       \/ HasThreadIdIn(state.threads, ev'.commits[1].p)

NextSelect ==
    \/ actions_loadThreads
    \/ actions_loadPhones
    \/ actions_loadUser
    \/ actions_sendMessage
    \/ Selecting(actions_setThreadId)
    \/ Selecting(actions_loadThreadMessages)
    \/ actions_setAuthUser
    \/ actions_setOwner
    \/ \E t \in Slots : loadThreads_response(t)
    \/ \E t \in Slots : loadPhones_response(t)
    \/ \E t \in Slots : loadUser_response(t)
    \/ \E t \in Slots : loadThreadMessages_resume(t)
    \/ \E t \in Slots : loadThreadMessages_response(t)
    \/ \E t \in Slots : setOwner_resume(t)
    \/ \E t \in Slots : setOwner_response(t)
    \/ \E t \in Slots : sendMessage_response(t)
    \/ \E t \in Slots : sendMessage_join(t)
    \/ \E t \in Slots : setAuthUser_resume(t)
    \/ \E t \in Slots : setAuthUser_join(t)
    \/ \E t \in Slots : setAuthUser_return(t)

SpecSelect == Init /\ [][NextSelect]_vars

\* C17: with consumers selecting only threads of the collection, whenever
\* hasThread is true threadId is the id of a thread of the current collection
\* and getThread returns it.
C17_ThreadIdReferencesThread ==
    getters_hasThread(state) =>
        /\ HasThreadIdIn(state.threads, state.threadId)
        /\ getters_getThread(state) # Thrown

----------------------------------------------------------------------------
\* The notification with its expiry timers.  The component that shows the
\* notification starts a timer at every addNotification; when the timer fires
\* it dispatches disableNotification.  A pending timer holds a slot; n numbers
\* the notifications, so the timer of the current one is the one with n = ops.

addNotification_startTimer ==
    \E request \in NotificationRequests, random \in 0 .. (RandomRange - 1) :
        /\ ops < MaxOps
        /\ FreeSlots # {}
        /\ LET t == MinOf(FreeSlots)
           IN  /\ state' = mutations_setNotification(state, request, random)
               /\ ops' = ops + 1
               /\ tasks' = [tasks EXCEPT ![t] = Task("timer", "timeout", 0, [n |-> ops + 1])]
               /\ ev' = Event("addNotification", "call", t, "resolved",
                              <<Commit("setNotification", request)>>, {}, {}, NoLocals)

timer_fires(t) ==
    /\ tasks[t].kind = "timer"
    /\ state' = mutations_disableNotification(state)
    /\ tasks' = [tasks EXCEPT ![t] = Idle]
    /\ ev' = Event("disableNotification", "timer", t, "resolved",
                   <<Commit("disableNotification", NULL)>>, {}, {}, tasks[t].locals)
    /\ UNCHANGED ops

NextTimers ==
    \/ addNotification_startTimer
    \/ \E t \in Slots : timer_fires(t)

SpecTimers == Init /\ [][NextTimers]_vars

\* C18: a notification stays active until its own timer fires: while the timer
\* of the current notification is pending, whatever timers of earlier
\* notifications have fired since it was added, active is true.
C18_ActiveUntilOwnTimer ==
    (\E t \in Slots : tasks[t].kind = "timer" /\ tasks[t].locals.n = ops) =>
        state.notification.active

----------------------------------------------------------------------------
\* Claims about overlapping operations (Spec).

\* C19: every successful response of a list-threads request commits setThreads
\* with its payload, the threads of the owner the request was issued for, in
\* the step that handles the response, whatever the owner is by then and
\* whatever other loads are in flight; a load in flight is ended by its own
\* response or error only, never by another operation; and threads changes in
\* setThreads commits only.  So threads is the payload of the last response.
C19_LastResponseWins ==
    [][ /\ (ev'.op = "loadThreads" /\ ev'.at = "response") =>
            /\ ev'.outcome = "resolved"
            /\ ev'.commits = <<Commit("setThreads", state'.threads)>>
            /\ state'.threads \in ThreadsOf(ev'.locals.owner)
            /\ state' = [state EXCEPT !.threads = state'.threads, !.loadingThreads = FALSE]
        /\ \A t \in Slots :
              (tasks[t].kind = "loadThreads" /\ tasks[t].pc = "get") =>
                  \/ /\ tasks'[t].kind = "loadThreads"
                     /\ tasks'[t].pc = "get"
                     /\ tasks'[t].locals = tasks[t].locals
                  \/ /\ ev'.op = "loadThreads"
                     /\ ev'.task = t
                     /\ ev'.at \in {"response", "error"}
        /\ (state'.threads # state.threads) => CommittedIn(ev', "setThreads")
      ]_vars

\* the response of the load issued for +1A was handled after the owner had
\* become +1B and the load issued for +1B had committed +1B's threads: the
\* store shows +1A's threads as loaded for owner +1B
C19_Witness ==
    /\ ev.op = "loadThreads" /\ ev.at = "response"
    /\ ev.locals.owner = "+1A"
    /\ ev.prev.owner = "+1B"
    /\ ev.prev.threads = <<ThreadB>>
    /\ ~ev.prev.loadingThreads
    /\ state.phones = <<PhoneA, PhoneB>>
    /\ state.owner = "+1B"
    /\ ~state.loadingThreads
    /\ state.threads = <<ThreadA>>

\* C20: sendMessage issues the send-message request at once, whatever threadId
\* is, and changes nothing then; when the request has succeeded and no thread
\* of the collection has id = threadId (null included), the operation is
\* rejected at the getThread lookup: no action is dispatched, no request is
\* issued, nothing is committed, the state (threads, threadMessages, threadId
\* and the loading flags with it) is as it was, and the slots held for the two
\* reloads are given back unused.  It is rejected there in that case only.
C20_SendMessageWithoutThread ==
    [][ /\ (ev'.op = "sendMessage" /\ ev'.at = "call") =>
            /\ ev'.reqs = {"send-message"}
            /\ ev'.outcome = "pending"
            /\ ev'.commits = <<>>
            /\ ev'.disp = {}
            /\ state' = state
            /\ tasks'[ev'.task].pc = "post"
        /\ (ev'.op = "sendMessage" /\ ev'.at = "response") =>
            /\ tasks[ev'.task].pc = "post"
            /\ IF HasThreadIdIn(state.threads, state.threadId)
               THEN /\ ev'.outcome = "pending"
                    /\ ev'.disp = {"loadThreadMessages", "loadThreads"}
               ELSE /\ ev'.outcome = "rejected"
                    /\ ev'.disp = {}
                    /\ ev'.reqs = {}
                    /\ ev'.commits = <<>>
                    /\ state' = state
                    /\ \A i \in {1, 2} :
                          /\ tasks[tasks[ev'.task].locals.children[i]].kind = "reserved"
                          /\ tasks'[tasks[ev'.task].locals.children[i]].kind = "idle"
      ]_vars

\* sendMessage was the only operation, called on the signed-in store with no
\* thread selected: the message was sent and the operation then failed at getThread
C20_Witness ==
    /\ ops = 1
    /\ ev.op = "sendMessage" /\ ev.at = "response" /\ ev.outcome = "rejected"
    /\ state.threadId = NULL
    /\ state.threads = <<ThreadA>>
    /\ state.threadMessages = <<>>
    /\ ~state.loadingThreads
    /\ state.loadingMessages
    /\ Quiescent

====
